---- MODULE Spec2Model ----
(***************************************************************************)
(* A model of src/src/App.tsx: the React state of the shape scene (the     *)
(* object list and the selection), the retained three.js graph kept in     *)
(* meshesRef by the "Update Objects Effect", and the per-frame movement    *)
(* simulation of animate().                                                *)
(*                                                                         *)
(* Numbers.  Lengths, angles of rotation and scale factors are fixed-point *)
(* integers in units of 1/Scale.  radius, height, movementSpeed,           *)
(* movementRange and the material scalars are in tenths, the step of the   *)
(* sliders that edit them.  A product that is not a whole number of units  *)
(* is rounded to the nearest unit (RoundDiv).                              *)
(*                                                                         *)
(* Scheduling.  A click or a key press is a discrete React event: its      *)
(* state updates are rendered and the effects of that render run before    *)
(* the handler's task ends, so those handlers include the effects.  A      *)
(* state update made from a timer callback or from the gizmo's pointer     *)
(* listener is rendered in a later task: it leaves renderPending set, and  *)
(* the Render action is that later task.  Between the two the handlers and *)
(* the frame loop still see the list of the last render (objectsRef).      *)
(*                                                                         *)
(* Ids.  In Spec a Math.random() token is fresh: a new id is never an id   *)
(* that was used before.  SpecTokens also has the runs in which            *)
(* Math.random() repeats a value.                                          *)
(***************************************************************************)
EXTENDS Integers, Sequences, FiniteSets, TLC

VARIABLES
    objects,          \* useState objects: the object list, queued updates applied
    selectedId,       \* useState selectedId (NoId models null)
    transformMode,    \* useState transformMode
    showGizmo,        \* useState showGizmo
    objectsRef,       \* objectsRef.current: the list of the last render
    selectedIdRef,    \* selectedIdRef.current
    renderPending,    \* a state update is queued and not yet rendered
    meshes,           \* meshesRef.current: id -> live mesh
    sceneChildren,    \* ids of the meshes that are children of the scene
    geometries,       \* every geometry allocated so far, by handle
    materials,        \* every material allocated so far, by handle
    transformObject,  \* transformControls.object (NoId when detached)
    gizmoMode,        \* the mode last given to transformControls.setMode
    dragging,         \* transformControls.dragging
    controlsEnabled,  \* controls.enabled of the orbit controls
    timers,           \* pending setTimeout(..., 0) callbacks, oldest first
    registered,       \* what the initialization effect registered and not yet removed
    environment,      \* useState environment: the preset
    lights,           \* scene.background and the three named lights
    nextId,           \* source of fresh ids
    ops,              \* number of input events handled so far
    frames,           \* number of animation frames run so far
    last              \* the handler that ran last

vars == << objects, selectedId, transformMode, showGizmo, objectsRef,
           selectedIdRef, renderPending, meshes, sceneChildren, geometries,
           materials, transformObject, gizmoMode, dragging, controlsEnabled,
           timers, registered, environment, lights, nextId, ops, frames,
           last >>

(* Bounds of the exploration *)

MaxOps == 2
MaxFrames == 2
MaxTime == 1
MaxPending == 2

(* Units *)

Scale == 10000
NoId == 0

Vec(x, y, z) == << x, y, z >>

\* n / d rounded to the nearest integer, halves away from zero (d > 0)
RoundDiv(n, d) ==
    IF n >= 0 THEN (2 * n + d) \div (2 * d)
              ELSE 0 - ((2 * (0 - n) + d) \div (2 * d))

Abs(n) == IF n < 0 THEN 0 - n ELSE n

ShapeTypes == { "sphere", "cylinder", "cube", "cone", "torus", "pyramid",
                "prism", "pentagonalPrism", "hexagonalPrism",
                "octagonalPrism", "tetrahedron", "dodecahedron",
                "icosahedron" }

MovementModes == { "none", "straight", "left-right", "up-down", "returning",
                   "orbit" }

(* The initial list of useState: one torus, selected *)

InitialObjects ==
    << [ id |-> 1, type |-> "torus",
         position |-> Vec(0, 0, 0), rotation |-> Vec(0, 0, 0),
         scale |-> Vec(Scale, Scale, Scale),
         color |-> "#6366f1", texture |-> "noise",
         metalness |-> 5, roughness |-> 2,
         emissive |-> "#000000", emissiveIntensity |-> 0, opacity |-> 10,
         radius |-> 30, height |-> 30, name |-> "Primary Torus",
         isAnimated |-> FALSE, movementMode |-> "none",
         movementSpeed |-> 10, movementRange |-> 50,
         originalPosition |-> Vec(0, 0, 0) ] >>

InitialSelectedId == 1

Ids(objs) == { objs[i].id : i \in DOMAIN objs }

\* objects.filter(keep)
RECURSIVE FilterOut(_, _)
FilterOut(objs, id) ==
    IF objs = << >> THEN << >>
    ELSE IF Head(objs).id = id THEN FilterOut(Tail(objs), id)
         ELSE << Head(objs) >> \o FilterOut(Tail(objs), id)

(* createGeometry: lengths of a geometry are in units of 1/30, three units *)
(* per tenth, so that radius / 3 is a whole number of units.               *)

Len30(tenths) == 3 * tenths

\* a factory that knows one primitive
SphereAlways(type, radius, height) ==
    [ kind |-> "SphereGeometry", args |-> << Len30(radius), 64, 64 >> ]

createGeometry(type, radius, height) ==
    CASE type = "sphere" ->
           [ kind |-> "SphereGeometry", args |-> << Len30(radius), 64, 64 >> ]
      [] type = "cylinder" ->
           [ kind |-> "CylinderGeometry",
             args |-> << Len30(radius), Len30(radius), Len30(height), 64 >> ]
      [] type = "cube" ->
           [ kind |-> "BoxGeometry",
             args |-> << Len30(radius) * 2, Len30(radius) * 2, Len30(radius) * 2 >> ]
      [] type = "cone" ->
           [ kind |-> "ConeGeometry",
             args |-> << Len30(radius), Len30(height), 64 >> ]
      [] type = "torus" ->
           [ kind |-> "TorusGeometry",
             args |-> << Len30(radius), Len30(radius) \div 3, 64, 64 >> ]
      [] type = "pyramid" ->
           [ kind |-> "ConeGeometry",
             args |-> << Len30(radius), Len30(height), 4 >> ]
      [] type = "prism" ->
           [ kind |-> "CylinderGeometry",
             args |-> << Len30(radius), Len30(radius), Len30(height), 3 >> ]
      [] type = "pentagonalPrism" ->
           [ kind |-> "CylinderGeometry",
             args |-> << Len30(radius), Len30(radius), Len30(height), 5 >> ]
      [] type = "hexagonalPrism" ->
           [ kind |-> "CylinderGeometry",
             args |-> << Len30(radius), Len30(radius), Len30(height), 6 >> ]
      [] type = "octagonalPrism" ->
           [ kind |-> "CylinderGeometry",
             args |-> << Len30(radius), Len30(radius), Len30(height), 8 >> ]
      [] type = "tetrahedron" ->
           [ kind |-> "TetrahedronGeometry", args |-> << Len30(radius) >> ]
      [] type = "dodecahedron" ->
           [ kind |-> "DodecahedronGeometry", args |-> << Len30(radius) >> ]
      [] type = "icosahedron" ->
           [ kind |-> "IcosahedronGeometry", args |-> << Len30(radius) >> ]
      [] OTHER ->
           [ kind |-> "SphereGeometry", args |-> << Len30(radius), 64, 64 >> ]


(* The Update Objects Effect.  G is the retained graphics state:           *)
(* [meshes, sceneChildren, geometries, materials].  A geometry or material *)
(* is a handle into the sequence of everything allocated so far; disposed  *)
(* counts the dispose() calls made on it.                                  *)

Triple(obj) == [ type |-> obj.type, radius |-> obj.radius, height |-> obj.height ]

\* mesh.geometry.dispose() / mesh.material.dispose()
Dispose(table, h) == [ table EXCEPT ![h].disposed = @ + 1 ]

\* the fields of new THREE.MeshStandardMaterial({...}) and of the update branch
MaterialProps(obj) ==
    [ color |-> obj.color, metalness |-> obj.metalness,
      roughness |-> obj.roughness, emissive |-> obj.emissive,
      emissiveIntensity |-> obj.emissiveIntensity,
      transparent |-> (obj.opacity < 10), opacity |-> obj.opacity,
      map |-> IF obj.texture # "none" THEN obj.texture ELSE "null" ]

\* a removal loop that never finds an id to remove
StaleIdsNone(G, objs) == { }

\* ids of the map that the list no longer has: !currentIds.has(id)
StaleIds(G, objs) == { id \in DOMAIN G.meshes : id \notin Ids(objs) }

\* a removal that forgets to dispose the material
RemoveMeshLeak(G, id) ==
    [ meshes |-> [ k \in (DOMAIN G.meshes) \ { id } |-> G.meshes[k] ],
      sceneChildren |-> G.sceneChildren \ { id },
      geometries |-> Dispose(G.geometries, G.meshes[id].geometry),
      materials |-> G.materials ]

\* scene.remove(mesh); geometry.dispose(); material.dispose(); delete(id)
RemoveMesh(G, id) ==
    [ meshes |-> [ k \in (DOMAIN G.meshes) \ { id } |-> G.meshes[k] ],
      sceneChildren |-> G.sceneChildren \ { id },
      geometries |-> Dispose(G.geometries, G.meshes[id].geometry),
      materials |-> Dispose(G.materials, G.meshes[id].material) ]

RECURSIVE RemoveAll(_, _)
RemoveAll(G, ids) ==
    IF ids = { } THEN G
    ELSE LET id == CHOOSE k \in ids : \A j \in ids : k <= j
         IN  RemoveAll(RemoveMesh(G, id), ids \ { id })

\* "Remove meshes no longer in state"
RemoveStale(G, objs) == RemoveAll(G, StaleIds(G, objs))

\* the create branch: a new mesh keeps three.js's default transform
CreateMesh(G, obj) ==
    LET g == Len(G.geometries) + 1
        m == Len(G.materials) + 1
    IN  [ meshes |->
            [ k \in (DOMAIN G.meshes) \cup { obj.id } |->
                IF k = obj.id
                THEN [ position |-> Vec(0, 0, 0), rotation |-> Vec(0, 0, 0),
                       scale |-> Vec(Scale, Scale, Scale),
                       geometry |-> g, material |-> m,
                       userData |-> Triple(obj) ]
                ELSE G.meshes[k] ],
          sceneChildren |-> G.sceneChildren \cup { obj.id },
          geometries |-> Append(G.geometries,
                           [ shape |-> createGeometry(obj.type, obj.radius, obj.height),
                             disposed |-> 0 ]),
          materials |-> Append(G.materials,
                           [ props |-> MaterialProps(obj), disposed |-> 0 ]) ]

\* a reset that does not consult the cache
AlwaysReset(mesh, obj) == TRUE

\* a comparison that forgets the radius
RadiusIgnored(mesh, obj) ==
    \/ mesh.userData.type # obj.type
    \/ mesh.userData.height # obj.height

\* currentType !== obj.type || currentRadius !== obj.radius || currentHeight !== obj.height
NeedsGeometryReset(mesh, obj) ==
    \/ mesh.userData.type # obj.type
    \/ mesh.userData.radius # obj.radius
    \/ mesh.userData.height # obj.height

\* an update that re-applies the material fields and leaves the transform
UpdateBasicPropsMaterialOnly(G, obj) ==
    [ G EXCEPT
        !.materials[G.meshes[obj.id].material].props = MaterialProps(obj) ]

\* "Update basic props": transform and material fields, always
UpdateBasicProps(G, obj) ==
    [ G EXCEPT
        !.meshes[obj.id].position = obj.position,
        !.meshes[obj.id].rotation = obj.rotation,
        !.meshes[obj.id].scale = obj.scale,
        !.materials[G.meshes[obj.id].material].props = MaterialProps(obj) ]

\* a reset that drops the old geometry without disposing it
ResetGeometryNoDispose(G, obj) ==
    [ G EXCEPT
        !.geometries =
            Append(G.geometries,
                   [ shape |-> createGeometry(obj.type, obj.radius, obj.height),
                     disposed |-> 0 ]),
        !.meshes[obj.id].geometry = Len(G.geometries) + 1,
        !.meshes[obj.id].userData = Triple(obj) ]

\* "Reset geometry if type/params changed"
ResetGeometry(G, obj) ==
    LET g == Len(G.geometries) + 1
    IN  [ G EXCEPT
            !.geometries =
                Append(Dispose(G.geometries, G.meshes[obj.id].geometry),
                       [ shape |-> createGeometry(obj.type, obj.radius, obj.height),
                         disposed |-> 0 ]),
            !.meshes[obj.id].geometry = g,
            !.meshes[obj.id].userData = Triple(obj) ]

\* the update branch
UpdateMesh(G, obj) ==
    LET G1 == UpdateBasicProps(G, obj)
    IN  IF NeedsGeometryReset(G.meshes[obj.id], obj)
        THEN ResetGeometry(G1, obj)
        ELSE G1

\* the body of objects.forEach(obj => ...) of the effect
AddOrUpdate(G, obj) ==
    IF obj.id \notin DOMAIN G.meshes THEN CreateMesh(G, obj)
                                     ELSE UpdateMesh(G, obj)

RECURSIVE ForEachAddOrUpdate(_, _)
ForEachAddOrUpdate(G, objs) ==
    IF objs = << >> THEN G
    ELSE ForEachAddOrUpdate(AddOrUpdate(G, Head(objs)), Tail(objs))

\* both loops of the effect
Reconcile(G, objs) == ForEachAddOrUpdate(RemoveStale(G, objs), objs)

\* a binding that does not look at the gizmo visibility
AttachTargetWhenHidden(ms, sel, gizmo) ==
    IF sel # NoId /\ sel \in DOMAIN ms THEN sel ELSE NoId

\* "Update Transform Controls selection": the object the gizmo ends on
AttachTarget(ms, sel, gizmo) ==
    IF sel # NoId /\ gizmo
    THEN IF sel \in DOMAIN ms THEN sel ELSE NoId
    ELSE NoId


(* animate(): the per-object simulation of one frame.  The clock is read   *)
(* at whole multiples of 5*pi/8 seconds, so that with a speed in tenths    *)
(* time * speed * 2 and time * speed * 0.5 are whole multiples of pi/32,   *)
(* where the sine is tabulated (in units of 1/Scale).                      *)

QuarterSine ==
    << 0, 980, 1951, 2903, 3827, 4714, 5556, 6344, 7071, 7730, 8315, 8819,
       9239, 9569, 9808, 9952, 10000 >>

\* Math.sin of a (non-negative) multiple of pi/32
Sin32(a) ==
    LET r == a % 64
    IN  IF r <= 16 THEN QuarterSine[r + 1]
        ELSE IF r <= 32 THEN QuarterSine[32 - r + 1]
        ELSE IF r <= 48 THEN 0 - QuarterSine[r - 32 + 1]
        ELSE 0 - QuarterSine[64 - r + 1]

\* Math.cos of a multiple of pi/32
Cos32(a) == Sin32(a + 16)

\* Math.sin(...) * range or Math.cos(...) * range: the sine is in units of
\* 1/Scale and the range in tenths, so the length is their product over ten
Swing(unitValue, range) == RoundDiv(unitValue * range, 10)

\* mesh.rotation.y += 0.01
SpinIncrement == Scale \div 100

\* 0.02 * speed
StraightStep(speed) == (2 * speed * Scale) \div 1000

\* "Loop back after some distance": 50
WrapDistance == 50 * Scale

\* a step with the sign of the difference reversed
ReturnDeltaAway(o, p, speed) == RoundDiv((p - o) * 5 * speed, 1000)

\* (o - p) * step with step = 0.05 * speed
ReturnDelta(o, p, speed) == RoundDiv((o - p) * 5 * speed, 1000)

\* dist < 0.01, compared as squares
ArrivalDistance == Scale \div 100

\* a component as far away as the threshold decides alone; only smaller
\* ones are squared
Arrived(home, p) ==
    LET dx == home[1] - p[1]
        dy == home[2] - p[2]
        dz == home[3] - p[3]
    IN  /\ Abs(dx) < ArrivalDistance
        /\ Abs(dy) < ArrivalDistance
        /\ Abs(dz) < ArrivalDistance
        /\ dx * dx + dy * dy + dz * dz < ArrivalDistance * ArrivalDistance

\* range || 5
OrbitRadius(range) == IF range = 0 THEN 50 ELSE range

\* the closure handed to setTimeout: it keeps obj.id and ox, oy, oz
CommitOf(obj) == [ id |-> obj.id, home |-> obj.originalPosition ]

\* a spin that only moving objects get
SpinMeshWhenMoving(mesh, obj) ==
    IF obj.isAnimated /\ obj.movementMode # "none"
    THEN [ mesh EXCEPT !.rotation[2] = @ + Scale \div 100 ]
    ELSE mesh

\* "Basic Rotation (Existing)"
SpinMesh(mesh, obj) ==
    IF obj.isAnimated
    THEN [ mesh EXCEPT !.rotation[2] = @ + SpinIncrement ]
    ELSE mesh

\* a straight motion that never loops back
MoveStraightNoWrap(mesh, obj) ==
    [ mesh EXCEPT !.position[3] = @ + StraightStep(obj.movementSpeed) ]

\* case 'straight'
MoveStraight(mesh, obj) ==
    LET z == mesh.position[3] + StraightStep(obj.movementSpeed)
        oz == obj.originalPosition[3]
    IN  [ mesh EXCEPT !.position[3] =
            IF Abs(z - oz) > WrapDistance THEN oz - WrapDistance ELSE z ]

\* a swing that starts from where the node is
MoveLeftRightFromNode(mesh, obj, time) ==
    [ mesh EXCEPT !.position[1] = @ + obj.movementRange ]

\* case 'left-right'
MoveLeftRight(mesh, obj, time) ==
    [ mesh EXCEPT !.position[1] =
        obj.originalPosition[1]
          + Swing(Sin32(time * obj.movementSpeed * 4), obj.movementRange) ]

\* case 'up-down'
MoveUpDown(mesh, obj, time) ==
    [ mesh EXCEPT !.position[2] =
        obj.originalPosition[2]
          + Swing(Sin32(time * obj.movementSpeed * 4), obj.movementRange) ]

\* case 'returning', the three += lines
ReturnStep(mesh, obj) ==
    LET h == obj.originalPosition
        p == mesh.position
    IN  Vec(p[1] + ReturnDelta(h[1], p[1], obj.movementSpeed),
            p[2] + ReturnDelta(h[2], p[2], obj.movementSpeed),
            p[3] + ReturnDelta(h[3], p[3], obj.movementSpeed))

\* case 'returning': the mesh after the step and the snap
MoveReturning(mesh, obj) ==
    LET p == ReturnStep(mesh, obj)
    IN  [ mesh EXCEPT !.position =
            IF Arrived(obj.originalPosition, p) THEN obj.originalPosition ELSE p ]

\* case 'returning': the callbacks given to setTimeout in this step
ReturningCommits(mesh, obj) ==
    IF Arrived(obj.originalPosition, ReturnStep(mesh, obj))
    THEN << CommitOf(obj) >>
    ELSE << >>

\* an orbit drawn around the place where the node is
MoveOrbitFromNode(mesh, obj, time) ==
    LET r == IF obj.movementRange = 0 THEN 50 ELSE obj.movementRange
    IN  [ mesh EXCEPT !.position[1] = @ + r * (Scale \div 10) ]

\* case 'orbit'
MoveOrbit(mesh, obj, time) ==
    LET a == time * obj.movementSpeed
        r == OrbitRadius(obj.movementRange)
    IN  [ mesh EXCEPT
            !.position[1] = obj.originalPosition[1] + Swing(Cos32(a), r),
            !.position[3] = obj.originalPosition[3] + Swing(Sin32(a), r) ]

\* switch (obj.movementMode)
MoveMesh(mesh, obj, time) ==
    CASE obj.movementMode = "straight" -> MoveStraight(mesh, obj)
      [] obj.movementMode = "left-right" -> MoveLeftRight(mesh, obj, time)
      [] obj.movementMode = "up-down" -> MoveUpDown(mesh, obj, time)
      [] obj.movementMode = "returning" -> MoveReturning(mesh, obj)
      [] obj.movementMode = "orbit" -> MoveOrbit(mesh, obj, time)
      [] OTHER -> mesh

\* the body of objectsRef.current.forEach(obj => ...): A is [meshes, commits]
AnimateObject(A, obj, time) ==
    IF obj.id \notin DOMAIN A.meshes THEN A
    ELSE LET spun == SpinMesh(A.meshes[obj.id], obj)
         IN  [ meshes |-> [ A.meshes EXCEPT ![obj.id] = MoveMesh(spun, obj, time) ],
               commits |-> A.commits \o
                   (IF obj.movementMode = "returning"
                    THEN ReturningCommits(spun, obj) ELSE << >>) ]

RECURSIVE ForEachAnimate(_, _, _)
ForEachAnimate(A, objs, time) ==
    IF objs = << >> THEN A
    ELSE ForEachAnimate(AnimateObject(A, Head(objs), time), Tail(objs), time)

\* the per-object loop of one frame over the list the frame loop sees
AnimatePass(ms, objs, time) ==
    ForEachAnimate([ meshes |-> ms, commits |-> << >> ], objs, time)

\* a callback that restores the position and leaves the mode
ApplyCommitKeepsMode(objs, c) ==
    [ i \in DOMAIN objs |->
        IF objs[i].id = c.id
        THEN [ objs[i] EXCEPT !.position = c.home ]
        ELSE objs[i] ]

\* a callback that writes to the first object, whatever its id
ApplyCommitFirst(objs, c) ==
    [ i \in DOMAIN objs |->
        IF i = 1
        THEN [ objs[i] EXCEPT !.position = c.home, !.movementMode = "none" ]
        ELSE objs[i] ]

\* a callback that also moves the home back to the origin
ApplyCommitResetsHome(objs, c) ==
    [ i \in DOMAIN objs |->
        IF objs[i].id = c.id
        THEN [ objs[i] EXCEPT !.position = c.home, !.movementMode = "none",
                              !.originalPosition = Vec(0, 0, 0) ]
        ELSE objs[i] ]

\* the timer callback: prev.map(o => o.id === obj.id ? {...o, position, movementMode} : o)
ApplyCommit(objs, c) ==
    [ i \in DOMAIN objs |->
        IF objs[i].id = c.id
        THEN [ objs[i] EXCEPT !.position = c.home, !.movementMode = "none" ]
        ELSE objs[i] ]

\* setObjects called in the loop itself instead of from a timer
RECURSIVE CommitNow(_, _)
CommitNow(S, commits) ==
    IF commits = << >> THEN S
    ELSE CommitNow([ objects |-> ApplyCommit(S.objects, Head(commits)),
                     timers |-> S.timers ], Tail(commits))

\* setTimeout(cb, 0) for each arrival: the store is left alone, the
\* callbacks wait in the timer queue.  S is [objects, timers].
DeferCommits(S, commits) ==
    [ objects |-> S.objects, timers |-> S.timers \o commits ]


(* The Environment & Lighting Effect.  Colours are their hex digits and    *)
(* intensities are in tenths.  L is [background, ambient, mainIntensity,   *)
(* mainColor, pointIntensity, pointColor].                                 *)

EnvironmentPresets == { "studio", "midnight", "neon", "soft" }

\* scene.background and the lights as the initialization effect builds them
InitialLights ==
    [ background |-> "050505", ambient |-> 4,
      mainIntensity |-> 12, mainColor |-> "ffffff",
      pointIntensity |-> 0, pointColor |-> "6366f1" ]

\* switch (environment): only 'neon' sets the colour of the point light
EnvironmentEffect(L, env) ==
    CASE env = "studio" ->
           [ L EXCEPT !.background = "050505", !.ambient = 4,
                      !.mainIntensity = 12, !.mainColor = "ffffff",
                      !.pointIntensity = 0 ]
      [] env = "midnight" ->
           [ L EXCEPT !.background = "020205", !.ambient = 1,
                      !.mainIntensity = 5, !.mainColor = "3344ff",
                      !.pointIntensity = 0 ]
      [] env = "neon" ->
           [ L EXCEPT !.background = "0a0010", !.ambient = 2,
                      !.mainIntensity = 4, !.mainColor = "ff00ff",
                      !.pointIntensity = 20, !.pointColor = "00ffff" ]
      [] env = "soft" ->
           [ L EXCEPT !.background = "1a1a1a", !.ambient = 6,
                      !.mainIntensity = 8, !.mainColor = "fff0e0",
                      !.pointIntensity = 1 ]
      [] OTHER -> L


(* React: the effects of one render.  "Sync refs with state" copies the    *)
(* rendered values into the refs; the Update Objects Effect reconciles the *)
(* graph with the rendered list and re-binds the gizmo.                    *)

Graphics ==
    [ meshes |-> meshes, sceneChildren |-> sceneChildren,
      geometries |-> geometries, materials |-> materials ]

RunEffects(objs, sel, mode, gizmo) ==
    LET G == Reconcile(Graphics, objs)
        target == AttachTarget(G.meshes, sel, gizmo)
    IN  /\ objectsRef' = objs
        /\ selectedIdRef' = sel
        /\ meshes' = G.meshes
        /\ sceneChildren' = G.sceneChildren
        /\ geometries' = G.geometries
        /\ materials' = G.materials
        /\ transformObject' = target
        /\ gizmoMode' = IF target # NoId THEN mode ELSE gizmoMode

\* no render: the handler set no state, or set it to the value it had
NoEffects ==
    UNCHANGED << objectsRef, selectedIdRef, meshes, sceneChildren, geometries,
                 materials, transformObject, gizmoMode >>

Ran(op, key, id, effects) ==
    [ op |-> op, key |-> key, id |-> id, effects |-> effects ]

\* the component is mounted: its canvas is in the document
Running == "canvas" \in registered

\* one more event of the user, delivered to the mounted component
Event ==
    /\ Running
    /\ ops < MaxOps
    /\ ops' = ops + 1
    /\ UNCHANGED registered

\* an event whose handler leaves the environment preset alone
Input == Event /\ UNCHANGED << environment, lights >>

(* Inputs: the values the sliders, selects and Math.random() deliver *)

RandomDraws == { << 0, 0, 0, 0 >>, << 0, 0, 300, 0 >>, << 300, 0, 0, 300 >> }
RandomColors == { "#3399ff" }
TypeChoices == { "cube" }
RadiusChoices == { 20 }
HeightChoices == { 20 }
ColorChoices == { "#ff0000" }
TextureChoices == { "none" }
MetalnessChoices == { 9 }
RoughnessChoices == { 9 }
EmissiveChoices == { "#00ff00" }
EmissiveIntensityChoices == { 10 }
SpeedChoices == { 50 }
RangeChoices == { 0 }
TransformModes == { "translate", "rotate", "scale" }
Keys == { "g", "r", "delete", "backspace", "escape", "f" }
DragPositions == { Vec(300, 0, 0) }
DragRotations == { Vec(0, 5000, 0) }
DragScales == { Vec(2 * Scale, Scale, Scale) }
Times == 0 .. MaxTime

\* {...o, ...updates}
Merge(o, u) ==
    LET Pick(f) == IF f \in DOMAIN u THEN u[f] ELSE o[f]
    IN  [ id |-> Pick("id"), type |-> Pick("type"),
          position |-> Pick("position"), rotation |-> Pick("rotation"),
          scale |-> Pick("scale"), color |-> Pick("color"),
          texture |-> Pick("texture"), metalness |-> Pick("metalness"),
          roughness |-> Pick("roughness"), emissive |-> Pick("emissive"),
          emissiveIntensity |-> Pick("emissiveIntensity"),
          opacity |-> Pick("opacity"), radius |-> Pick("radius"),
          height |-> Pick("height"), name |-> Pick("name"),
          isAnimated |-> Pick("isAnimated"),
          movementMode |-> Pick("movementMode"),
          movementSpeed |-> Pick("movementSpeed"),
          movementRange |-> Pick("movementRange"),
          originalPosition |-> Pick("originalPosition") ]

\* a map that merges the updates into every object
MapUpdateAll(objs, id, u) ==
    [ i \in DOMAIN objs |-> Merge(objs[i], u) ]

\* prev.map(o => o.id === selectedId ? { ...o, ...updates } : o)
MapUpdate(objs, id, u) ==
    [ i \in DOMAIN objs |-> IF objs[i].id = id THEN Merge(objs[i], u) ELSE objs[i] ]

\* the field a call supplies: every call of the panel supplies one
Supplied(u) == CHOOSE f \in DOMAIN u : TRUE

\* updateSelectedObject(updates), called from a click or change handler
updateSelectedObject(u) ==
    /\ Input
    /\ IF selectedIdRef = NoId
       THEN /\ UNCHANGED objects
            /\ NoEffects
            /\ last' = Ran("updateSelectedObject", Supplied(u), selectedIdRef, FALSE)
       ELSE /\ objects' = MapUpdate(objects, selectedIdRef, u)
            /\ RunEffects(MapUpdate(objects, selectedIdRef, u), selectedId,
                          transformMode, showGizmo)
            /\ last' = Ran("updateSelectedObject", Supplied(u), selectedIdRef, TRUE)
    /\ UNCHANGED << selectedId, transformMode, showGizmo, renderPending,
                    dragging, controlsEnabled, timers, nextId, frames >>

\* the object the settings panel shows: objects.find(o => o.id === selectedId)
SelectedObjects == { i \in DOMAIN objectsRef : objectsRef[i].id = selectedIdRef }

\* the controls of the settings panel, each one call of updateSelectedObject
EditShape ==
    \/ \E t \in TypeChoices : updateSelectedObject([ type |-> t ])
    \/ \E r \in RadiusChoices : updateSelectedObject([ radius |-> r ])
    \/ \E h \in HeightChoices : updateSelectedObject([ height |-> h ])

EditAppearance ==
    \/ \E c \in ColorChoices : updateSelectedObject([ color |-> c ])
    \/ \E t \in TextureChoices : updateSelectedObject([ texture |-> t ])
    \/ \E m \in MetalnessChoices : updateSelectedObject([ metalness |-> m ])
    \/ \E r \in RoughnessChoices : updateSelectedObject([ roughness |-> r ])
    \/ \E e \in EmissiveChoices : updateSelectedObject([ emissive |-> e ])
    \/ \E e \in EmissiveIntensityChoices :
          updateSelectedObject([ emissiveIntensity |-> e ])

EditMovement ==
    \/ \E m \in MovementModes : updateSelectedObject([ movementMode |-> m ])
    \/ \E v \in SpeedChoices : updateSelectedObject([ movementSpeed |-> v ])
    \/ \E r \in RangeChoices : updateSelectedObject([ movementRange |-> r ])
    \/ \E i \in SelectedObjects :
          updateSelectedObject([ isAnimated |-> ~ objectsRef[i].isAnimated ])

\* the "Set Home" and "To Origin" buttons
EditHome ==
    \/ \E i \in SelectedObjects :
          updateSelectedObject([ originalPosition |-> objectsRef[i].position ])
    \/ updateSelectedObject([ originalPosition |-> Vec(0, 0, 0) ])

\* the object addObject builds: x1, z1, x2, z2 are (Math.random() - 0.5) * 10 of
\* four successive Math.random() calls
NewObject(id, n, x1, z1, x2, z2, color) ==
    [ id |-> id, type |-> "sphere",
      position |-> Vec(x1, 2 * Scale, z1), rotation |-> Vec(0, 0, 0),
      scale |-> Vec(Scale, Scale, Scale),
      color |-> color, texture |-> "none", metalness |-> 5, roughness |-> 5,
      emissive |-> "#000000", emissiveIntensity |-> 0, opacity |-> 10,
      radius |-> 20, height |-> 20, name |-> "Object-" \o ToString(n),
      isAnimated |-> FALSE, movementMode |-> "none",
      movementSpeed |-> 10, movementRange |-> 50,
      originalPosition |-> Vec(x2, 2 * Scale, z2) ]

\* addObject() when Math.random().toString(36).substr(2, 9) yields newId
addObjectWith(newId) ==
    /\ Input
    /\ \E r \in RandomDraws, color \in RandomColors :
         LET newObj == NewObject(newId, Len(objectsRef) + 1,
                                 r[1], r[2], r[3], r[4], color)
             objs == Append(objectsRef, newObj)
         IN  /\ objects' = objs
             /\ selectedId' = newId
             /\ RunEffects(objs, newId, transformMode, showGizmo)
    /\ nextId' = IF newId = nextId THEN nextId + 1 ELSE nextId
    /\ last' = Ran("addObject", "", newId, TRUE)
    /\ UNCHANGED << transformMode, showGizmo, renderPending, dragging,
                    controlsEnabled, timers, frames >>

\* addObject() when the token is one that was never produced before
addObject == addObjectWith(nextId)

\* addObject() when Math.random() repeats a value: the token is the id of an
\* object of the list (the ids of the list are '1' and tokens of addObject
\* as long as the preset, whose ids carry a prefix, has not replaced it)
addObjectRepeat == \E id \in Ids(objectsRef) : addObjectWith(id)

Sun(id) ==
    [ id |-> id, type |-> "sphere",
      position |-> Vec(0, 0, 0), rotation |-> Vec(0, 0, 0),
      scale |-> Vec(2 * Scale, 2 * Scale, 2 * Scale),
      color |-> "#ffcc00", texture |-> "noise", metalness |-> 1, roughness |-> 1,
      emissive |-> "#ff6600", emissiveIntensity |-> 20, opacity |-> 10,
      radius |-> 40, height |-> 40, name |-> "The Sun",
      isAnimated |-> TRUE, movementMode |-> "none",
      movementSpeed |-> 5, movementRange |-> 0,
      originalPosition |-> Vec(0, 0, 0) ]

\* name, color, radius, dist, speed
PlanetTable ==
    << [ name |-> "Mercury", color |-> "#aaaaaa", radius |-> 8, dist |-> 8, speed |-> 20 ],
       [ name |-> "Venus", color |-> "#eebb99", radius |-> 15, dist |-> 12, speed |-> 15 ],
       [ name |-> "Earth", color |-> "#2266ff", radius |-> 16, dist |-> 18, speed |-> 12 ],
       [ name |-> "Mars", color |-> "#ff4422", radius |-> 12, dist |-> 24, speed |-> 10 ] >>

Planet(id, p) ==
    [ id |-> id, type |-> "sphere",
      position |-> Vec(p.dist * Scale, 0, 0), rotation |-> Vec(0, 0, 0),
      scale |-> Vec(Scale, Scale, Scale),
      color |-> p.color, texture |-> "noise", metalness |-> 2, roughness |-> 8,
      emissive |-> "#000000", emissiveIntensity |-> 0, opacity |-> 10,
      radius |-> p.radius, height |-> p.radius, name |-> p.name,
      isAnimated |-> TRUE, movementMode |-> "orbit",
      movementSpeed |-> p.speed, movementRange |-> p.dist * 10,
      originalPosition |-> Vec(0, 0, 0) ]

\* [sun, ...planets] with ids first, first + 1, ...
SolarSystem(first) ==
    << Sun(first) >> \o
       [ i \in DOMAIN PlanetTable |-> Planet(first + i, PlanetTable[i]) ]

\* a preset that appends its objects to the list
createSolarSystemAppend ==
    /\ Input
    /\ objects' = objectsRef \o SolarSystem(nextId)
    /\ selectedId' = nextId
    /\ RunEffects(objectsRef \o SolarSystem(nextId), nextId, transformMode,
                  showGizmo)
    /\ nextId' = nextId + 1 + Len(PlanetTable)
    /\ last' = Ran("createSolarSystem", "", nextId, TRUE)
    /\ UNCHANGED << transformMode, showGizmo, renderPending, dragging,
                    controlsEnabled, timers, frames >>

createSolarSystem ==
    /\ Input
    /\ objects' = SolarSystem(nextId)
    /\ selectedId' = nextId
    /\ RunEffects(SolarSystem(nextId), nextId, transformMode, showGizmo)
    /\ nextId' = nextId + 1 + Len(PlanetTable)
    /\ last' = Ran("createSolarSystem", "", nextId, TRUE)
    /\ UNCHANGED << transformMode, showGizmo, renderPending, dragging,
                    controlsEnabled, timers, frames >>

\* a guard that is off by one
KeepsLastOffByOne(objs) == Len(objs) < 1

\* objects.length <= 1: "Keep at least one"
KeepsLast(objs) == Len(objs) <= 1

\* a delete that leaves the selection where it was
deleteObjectKeepsSelection(objs, sel, id, key) ==
    IF Len(objs) <= 1
    THEN /\ UNCHANGED << objects, selectedId >>
         /\ NoEffects
         /\ last' = Ran("deleteObject", key, id, FALSE)
    ELSE /\ objects' = FilterOut(objs, id)
         /\ selectedId' = selectedId
         /\ RunEffects(FilterOut(objs, id), selectedId, transformMode, showGizmo)
         /\ last' = Ran("deleteObject", key, id, TRUE)

\* deleteObject(id) as the closure of a render sees it: objs and sel are the
\* objects and selectedId of that render
deleteObject(objs, sel, id, key) ==
    IF KeepsLast(objs)
    THEN /\ UNCHANGED << objects, selectedId >>
         /\ NoEffects
         /\ last' = Ran("deleteObject", key, id, FALSE)
    ELSE LET newObjects == FilterOut(objs, id)
             newSel == IF sel = id /\ newObjects # << >>
                       THEN newObjects[1].id ELSE selectedId
         IN  /\ objects' = newObjects
             /\ selectedId' = newSel
             /\ RunEffects(newObjects, newSel, transformMode, showGizmo)
             /\ last' = Ran("deleteObject", key, id, TRUE)

\* the trash button of a row of the list, rendered when objects.length > 1
clickDelete ==
    /\ Input
    /\ Len(objectsRef) > 1
    /\ \E id \in Ids(objectsRef) : deleteObject(objectsRef, selectedIdRef, id, "")
    /\ UNCHANGED << transformMode, showGizmo, renderPending, dragging,
                    controlsEnabled, timers, nextId, frames >>

\* a row of the list: setSelectedId(obj.id)
clickSelect ==
    /\ Input
    /\ \E id \in Ids(objectsRef) :
         /\ selectedId' = id
         /\ IF id = selectedId
            THEN NoEffects /\ last' = Ran("setSelectedId", "", id, FALSE)
            ELSE /\ RunEffects(objects, id, transformMode, showGizmo)
                 /\ last' = Ran("setSelectedId", "", id, TRUE)
    /\ UNCHANGED << objects, transformMode, showGizmo, renderPending, dragging,
                    controlsEnabled, timers, nextId, frames >>

\* setTransformMode(m), from the mode buttons and from the g, r, s keys
setTransformMode(m, key) ==
    /\ transformMode' = m
    /\ IF m = transformMode
       THEN NoEffects /\ last' = Ran("setTransformMode", key, NoId, FALSE)
       ELSE /\ RunEffects(objects, selectedId, m, showGizmo)
            /\ last' = Ran("setTransformMode", key, NoId, TRUE)
    /\ UNCHANGED << objects, selectedId, showGizmo >>

clickTransformMode ==
    /\ Input
    /\ \E m \in TransformModes : setTransformMode(m, "")
    /\ UNCHANGED << renderPending, dragging, controlsEnabled, timers, nextId, frames >>

\* setShowGizmo(!showGizmo)
toggleGizmo ==
    /\ Input
    /\ showGizmo' = ~ showGizmo
    /\ RunEffects(objects, selectedId, transformMode, ~ showGizmo)
    /\ last' = Ran("setShowGizmo", "", NoId, TRUE)
    /\ UNCHANGED << objects, selectedId, transformMode, renderPending, dragging,
                    controlsEnabled, timers, nextId, frames >>

\* a preset button: setEnvironment(p).  The effect depends on environment
\* alone, and the effects of the object list do not run.
clickEnvironment ==
    /\ Event
    /\ \E p \in EnvironmentPresets :
         /\ environment' = p
         /\ lights' = IF p = environment THEN lights
                                         ELSE EnvironmentEffect(lights, p)
         /\ last' = Ran("setEnvironment", p, NoId, FALSE)
    /\ NoEffects
    /\ UNCHANGED << objects, selectedId, transformMode, showGizmo,
                    renderPending, dragging, controlsEnabled, timers, nextId,
                    frames >>

\* handleKeyDown: it was created by the first render, so the deleteObject it
\* calls sees the objects and selectedId of that render
handleKeyDown(key, inInput) ==
    /\ Input
    /\ "keydown" \in registered
    /\ IF inInput \/ key = "f"
       THEN /\ UNCHANGED << objects, selectedId, transformMode, showGizmo >>
            /\ NoEffects
            /\ last' = Ran("handleKeyDown", key, NoId, FALSE)
       ELSE CASE key = "g" -> setTransformMode("translate", key)
              [] key = "r" -> setTransformMode("rotate", key)
              [] key = "s" -> setTransformMode("scale", key)
              [] key \in { "delete", "backspace" } ->
                   /\ UNCHANGED << transformMode, showGizmo >>
                   /\ IF selectedIdRef # NoId
                      THEN deleteObject(InitialObjects, InitialSelectedId,
                                        selectedIdRef, key)
                      ELSE /\ UNCHANGED << objects, selectedId >>
                           /\ NoEffects
                           /\ last' = Ran("handleKeyDown", key, NoId, FALSE)
              [] key = "escape" ->
                   /\ selectedId' = NoId
                   /\ UNCHANGED << objects, transformMode, showGizmo >>
                   /\ IF selectedId = NoId
                      THEN NoEffects /\ last' = Ran("setSelectedId", key, NoId, FALSE)
                      ELSE /\ RunEffects(objects, NoId, transformMode, showGizmo)
                           /\ last' = Ran("setSelectedId", key, NoId, TRUE)
    /\ UNCHANGED << renderPending, dragging, controlsEnabled, timers, nextId, frames >>

keyDown == \E key \in Keys, inInput \in BOOLEAN : handleKeyDown(key, inInput)


(* The gizmo.  TransformControls starts a drag on pointer-down over the    *)
(* handle of the attached mesh, moves that mesh on pointer-move and fires  *)
(* objectChange, and ends the drag on pointer-up.  The state update of the *)
(* objectChange listener is made from a pointer-move listener, so it is    *)
(* rendered in a later task.                                               *)

\* a listener that disables the orbit controls and never enables them again
draggingChangedDisableOnly(value) ==
    /\ dragging' = value
    /\ controlsEnabled' = (controlsEnabled /\ ~ value)

\* the 'dragging-changed' listener: controls.enabled = !event.value
draggingChanged(value) ==
    /\ dragging' = value
    /\ controlsEnabled' = ~ value

gizmoPointerDown ==
    /\ Input
    /\ transformObject # NoId
    /\ ~ dragging
    /\ draggingChanged(TRUE)
    /\ last' = Ran("dragging-changed", "", transformObject, FALSE)
    /\ UNCHANGED << objects, selectedId, transformMode, showGizmo, objectsRef,
                    selectedIdRef, renderPending, meshes, sceneChildren,
                    geometries, materials, transformObject, gizmoMode, timers,
                    nextId, frames >>

gizmoPointerUp ==
    /\ Input
    /\ dragging
    /\ draggingChanged(FALSE)
    /\ last' = Ran("dragging-changed", "", transformObject, FALSE)
    /\ UNCHANGED << objects, selectedId, transformMode, showGizmo, objectsRef,
                    selectedIdRef, renderPending, meshes, sceneChildren,
                    geometries, materials, transformObject, gizmoMode, timers,
                    nextId, frames >>

\* the attached mesh after the gizmo moved it in its current mode
Dragged(mesh, mode, v) ==
    CASE mode = "translate" -> [ mesh EXCEPT !.position = v ]
      [] mode = "rotate" -> [ mesh EXCEPT !.rotation = v ]
      [] OTHER -> [ mesh EXCEPT !.scale = v ]

DragValues(mode) ==
    CASE mode = "translate" -> DragPositions
      [] mode = "rotate" -> DragRotations
      [] OTHER -> DragScales

\* the 'objectChange' listener: the new list
ObjectChange(objs, sel, obj) ==
    [ i \in DOMAIN objs |->
        IF objs[i].id = sel
        THEN [ objs[i] EXCEPT !.position = obj.position,
                              !.rotation = obj.rotation,
                              !.scale = obj.scale,
                              !.originalPosition = obj.position ]
        ELSE objs[i] ]

gizmoPointerMove ==
    /\ Input
    /\ dragging
    /\ transformObject # NoId
    /\ \E v \in DragValues(gizmoMode) :
         LET moved == Dragged(meshes[transformObject], gizmoMode, v)
         IN  /\ meshes' = [ meshes EXCEPT ![transformObject] = moved ]
             /\ IF selectedIdRef # NoId
                THEN /\ objects' = ObjectChange(objects, selectedIdRef, moved)
                     /\ renderPending' = TRUE
                ELSE UNCHANGED << objects, renderPending >>
    /\ last' = Ran("objectChange", "", transformObject, FALSE)
    /\ UNCHANGED << selectedId, transformMode, showGizmo, objectsRef,
                    selectedIdRef, sceneChildren, geometries, materials,
                    transformObject, gizmoMode, dragging, controlsEnabled,
                    timers, nextId >>
    /\ UNCHANGED frames

(* The frame loop, the timer queue and the deferred render *)

\* animate(): one frame at clock reading time
animate(time) ==
    LET A == AnimatePass(meshes, objectsRef, time)
        S == DeferCommits([ objects |-> objects, timers |-> timers ], A.commits)
    IN  /\ "frame" \in registered
        /\ meshes' = A.meshes
        /\ objects' = S.objects
        /\ timers' = S.timers
        /\ renderPending' = (renderPending \/ S.objects # objects)
        /\ last' = Ran("animate", "", NoId, FALSE)
        /\ UNCHANGED << selectedId, transformMode, showGizmo, objectsRef,
                        selectedIdRef, sceneChildren, geometries, materials,
                        transformObject, gizmoMode, dragging, controlsEnabled,
                        registered, environment, lights, nextId, ops >>

\* a frame of the bounded exploration
frame ==
    /\ frames < MaxFrames
    /\ frames' = frames + 1
    /\ \E time \in Times : animate(time)

\* the oldest setTimeout callback runs: setObjects(prev => prev.map(...)).
\* The cleanup does not clear these timers; React drops an update of a
\* component that is no longer mounted.
timeout ==
    /\ timers # << >>
    /\ timers' = Tail(timers)
    /\ IF Running
       THEN /\ objects' = ApplyCommit(objects, Head(timers))
            /\ renderPending' = TRUE
       ELSE UNCHANGED << objects, renderPending >>
    /\ last' = Ran("timeout", "", Head(timers).id, FALSE)
    /\ NoEffects
    /\ UNCHANGED << selectedId, transformMode, showGizmo, dragging,
                    controlsEnabled, registered, environment, lights, nextId,
                    ops, frames >>

\* React renders the queued update and runs the effects of that render
render ==
    /\ Running
    /\ renderPending
    /\ renderPending' = FALSE
    /\ RunEffects(objects, selectedId, transformMode, showGizmo)
    /\ last' = Ran("render", "", NoId, TRUE)
    /\ UNCHANGED << objects, selectedId, transformMode, showGizmo, dragging,
                    controlsEnabled, timers, registered, environment, lights,
                    nextId, ops, frames >>

\* what the initialization effect sets up and its cleanup takes down
Registrations == { "keydown", "resize", "frame", "resizeTimer", "canvas", "renderer" }

\* the cleanup of the initialization effect: the component unmounts
unmount ==
    /\ Running
    /\ registered' = registered \ { "keydown", "resize", "frame", "resizeTimer",
                                     "canvas", "renderer" }
    /\ last' = Ran("unmount", "", NoId, FALSE)
    /\ NoEffects
    /\ UNCHANGED << objects, selectedId, transformMode, showGizmo,
                    renderPending, dragging, controlsEnabled, timers,
                    environment, lights, nextId, ops, frames >>

(* The state once the component is mounted and the first render with       *)
(* isInitialized set has run its effects                                   *)

Mounted ==
    Reconcile([ meshes |-> << >>, sceneChildren |-> { },
                geometries |-> << >>, materials |-> << >> ], InitialObjects)

Init ==
    /\ objects = InitialObjects
    /\ selectedId = InitialSelectedId
    /\ transformMode = "translate"
    /\ showGizmo = TRUE
    /\ objectsRef = InitialObjects
    /\ selectedIdRef = InitialSelectedId
    /\ renderPending = FALSE
    /\ meshes = Mounted.meshes
    /\ sceneChildren = Mounted.sceneChildren
    /\ geometries = Mounted.geometries
    /\ materials = Mounted.materials
    /\ transformObject = AttachTarget(Mounted.meshes, InitialSelectedId, TRUE)
    /\ gizmoMode = "translate"
    /\ dragging = FALSE
    /\ controlsEnabled = TRUE
    /\ timers = << >>
    /\ registered = Registrations
    /\ environment = "studio"
    /\ lights = EnvironmentEffect(InitialLights, "studio")
    /\ nextId = 2
    /\ ops = 0
    /\ frames = 0
    /\ last = Ran("mount", "", NoId, TRUE)

Next ==
    \/ EditShape
    \/ EditAppearance
    \/ EditMovement
    \/ EditHome
    \/ addObject
    \/ createSolarSystem
    \/ clickDelete
    \/ clickSelect
    \/ clickTransformMode
    \/ toggleGizmo
    \/ clickEnvironment
    \/ keyDown
    \/ gizmoPointerDown
    \/ gizmoPointerMove
    \/ gizmoPointerUp
    \/ frame
    \/ timeout
    \/ render
    \/ unmount

Spec == Init /\ [][Next]_vars


(* The object list when Math.random() may repeat a token: the handlers    *)
(* that add, delete, select and edit objects.                              *)

TokensNext ==
    \/ addObject
    \/ addObjectRepeat
    \/ clickDelete
    \/ clickSelect
    \/ EditShape
    \/ EditAppearance

SpecTokens == Init /\ [][TokensNext]_vars


(* A returning motion on its own: the frame loop, the timer and the render *)
(* with no input in between.  The scenes are states the application       *)
(* reaches: the first object dragged away and its home sent back to the    *)
(* origin ("To Origin"), or a second object as addObject draws it, then    *)
(* switched to 'returning' at one of the speeds; meshes are where the      *)
(* reconciliation that followed the switch put them.                       *)

ReturnStarts ==
    { Vec(10 * Scale, 0, 0), Vec(300, 0, 0), Vec(0 - 400, 250, 90),
      Vec(3 * Scale, 0 - 4 * Scale, 12 * Scale) }

ReturnSpeeds == { 2, 10, 50 }

ReturnScenes ==
    { << [ InitialObjects[1] EXCEPT !.position = p,
                                   !.movementMode = "returning",
                                   !.movementSpeed = v ] >> :
        p \in ReturnStarts, v \in ReturnSpeeds }
    \cup
    { << InitialObjects[1],
         [ NewObject(2, 2, r[1], r[2], r[3], r[4], c)
             EXCEPT !.movementMode = "returning", !.movementSpeed = v ] >> :
        r \in RandomDraws, c \in RandomColors, v \in ReturnSpeeds }

\* the graph after the pass that created the meshes and the pass after the edit
ReturnGraphics(scene) ==
    Reconcile(Reconcile([ meshes |-> << >>, sceneChildren |-> { },
                          geometries |-> << >>, materials |-> << >> ], scene),
              scene)

ReturnInit ==
    \E scene \in ReturnScenes :
      LET sel == scene[Len(scene)].id
          G == ReturnGraphics(scene)
      IN  /\ objects = scene
          /\ selectedId = sel
          /\ transformMode = "translate"
          /\ showGizmo = TRUE
          /\ objectsRef = scene
          /\ selectedIdRef = sel
          /\ renderPending = FALSE
          /\ meshes = G.meshes
          /\ sceneChildren = G.sceneChildren
          /\ geometries = G.geometries
          /\ materials = G.materials
          /\ transformObject = AttachTarget(G.meshes, sel, TRUE)
          /\ gizmoMode = "translate"
          /\ dragging = FALSE
          /\ controlsEnabled = TRUE
          /\ timers = << >>
          /\ registered = Registrations
          /\ environment = "studio"
          /\ lights = EnvironmentEffect(InitialLights, "studio")
          /\ nextId = Len(scene) + 1
          /\ ops = 0
          /\ frames = 0
          /\ last = Ran("updateSelectedObject", "", sel, TRUE)

\* requestAnimationFrame keeps calling animate; the exploration lets at most
\* MaxPending timer callbacks wait
freeFrame ==
    /\ Len(timers) < MaxPending
    /\ UNCHANGED frames
    /\ \E time \in Times : animate(time)

ReturnNext == freeFrame \/ timeout \/ render

SpecReturn == ReturnInit /\ [][ReturnNext]_vars

\* frames keep coming, a due timer runs, a queued render is made
FairSpecReturn ==
    /\ ReturnInit
    /\ [][ReturnNext]_vars
    /\ WF_vars(freeFrame)
    /\ WF_vars(timeout)
    /\ WF_vars(render)


(* A straight motion on its own: the frame loop on one object in mode     *)
(* 'straight'.  The scenes are states the application reaches: the object  *)
(* dragged along z, its home left there ("Set Home") or sent back to the   *)
(* origin ("To Origin"), then switched to 'straight' at one of the speeds. *)

StraightHomes == { Vec(0, 0, 0), Vec(300, 0 - 200, 7 * Scale) }

\* z of the node relative to its home when the motion starts
StraightOffsets ==
    { 0, 49 * Scale + 9950, 50 * Scale, 60 * Scale, 0 - 50 * Scale - 50,
      0 - 60 * Scale }

StraightSpeeds == { 10, 50 }

StraightScenes ==
    { << [ InitialObjects[1] EXCEPT
             !.originalPosition = h,
             !.position = Vec(h[1] + 500, h[2], h[3] + d),
             !.movementMode = "straight",
             !.movementSpeed = v ] >> :
        h \in StraightHomes, d \in StraightOffsets, v \in StraightSpeeds }

StraightInit ==
    \E scene \in StraightScenes :
      LET G == ReturnGraphics(scene)
      IN  /\ objects = scene
          /\ selectedId = 1
          /\ transformMode = "translate"
          /\ showGizmo = TRUE
          /\ objectsRef = scene
          /\ selectedIdRef = 1
          /\ renderPending = FALSE
          /\ meshes = G.meshes
          /\ sceneChildren = G.sceneChildren
          /\ geometries = G.geometries
          /\ materials = G.materials
          /\ transformObject = AttachTarget(G.meshes, 1, TRUE)
          /\ gizmoMode = "translate"
          /\ dragging = FALSE
          /\ controlsEnabled = TRUE
          /\ timers = << >>
          /\ registered = Registrations
          /\ environment = "studio"
          /\ lights = EnvironmentEffect(InitialLights, "studio")
          /\ nextId = 2
          /\ ops = 0
          /\ frames = 0
          /\ last = Ran("updateSelectedObject", "", 1, TRUE)

StraightNext == freeFrame

SpecStraight == StraightInit /\ [][StraightNext]_vars


(* The movement switch on its own: the frame loop, the timer queue and    *)
(* the deferred render on one object.  The scenes are states the           *)
(* application reaches: the object dragged away from its home, the home    *)
(* left at the origin or set elsewhere, the speed and range sliders and    *)
(* the spin toggle at some of their values, one of the modes chosen.       *)

MotionHomes == { Vec(0, 0, 0), Vec(300, 0 - 200, 7 * Scale) }
MotionOffsets == { Vec(50, 0, 0), Vec(3 * Scale, 500, Scale) }
MotionSpeeds == { 10, 50 }
MotionRanges == { 0, 30 }

MotionScenes ==
    { << [ InitialObjects[1] EXCEPT
             !.originalPosition = h,
             !.position = Vec(h[1] + d[1], h[2] + d[2], h[3] + d[3]),
             !.movementMode = m,
             !.movementSpeed = v,
             !.movementRange = r,
             !.isAnimated = a ] >> :
        h \in MotionHomes, d \in MotionOffsets, m \in MovementModes,
        v \in MotionSpeeds, r \in MotionRanges, a \in BOOLEAN }

MotionInit ==
    \E scene \in MotionScenes :
      LET G == ReturnGraphics(scene)
      IN  /\ objects = scene
          /\ selectedId = 1
          /\ transformMode = "translate"
          /\ showGizmo = TRUE
          /\ objectsRef = scene
          /\ selectedIdRef = 1
          /\ renderPending = FALSE
          /\ meshes = G.meshes
          /\ sceneChildren = G.sceneChildren
          /\ geometries = G.geometries
          /\ materials = G.materials
          /\ transformObject = AttachTarget(G.meshes, 1, TRUE)
          /\ gizmoMode = "translate"
          /\ dragging = FALSE
          /\ controlsEnabled = TRUE
          /\ timers = << >>
          /\ registered = Registrations
          /\ environment = "studio"
          /\ lights = EnvironmentEffect(InitialLights, "studio")
          /\ nextId = 2
          /\ ops = 0
          /\ frames = 0
          /\ last = Ran("updateSelectedObject", "", 1, TRUE)

MotionNext == frame \/ timeout \/ render

SpecMotion == MotionInit /\ [][MotionNext]_vars


(* createGeometry on its own: one object whose type, radius and height are *)
(* drawn from the values the controls offer, and a type value that is not  *)
(* a ShapeType (the casts of the select handlers let one through          *)
(* unchecked); the type select and the two sliders then edit it.           *)

FactoryTypes == ShapeTypes \cup { "capsule" }
FactoryRadii == { 5, 20 }
FactoryHeights == { 10, 30 }

FactoryScenes ==
    { << [ InitialObjects[1] EXCEPT !.type = t, !.radius = r, !.height = h ] >> :
        t \in FactoryTypes, r \in FactoryRadii, h \in FactoryHeights }

FactoryInit ==
    \E scene \in FactoryScenes :
      LET G == Reconcile([ meshes |-> << >>, sceneChildren |-> { },
                          geometries |-> << >>, materials |-> << >> ], scene)
      IN  /\ objects = scene
          /\ selectedId = 1
          /\ transformMode = "translate"
          /\ showGizmo = TRUE
          /\ objectsRef = scene
          /\ selectedIdRef = 1
          /\ renderPending = FALSE
          /\ meshes = G.meshes
          /\ sceneChildren = G.sceneChildren
          /\ geometries = G.geometries
          /\ materials = G.materials
          /\ transformObject = AttachTarget(G.meshes, 1, TRUE)
          /\ gizmoMode = "translate"
          /\ dragging = FALSE
          /\ controlsEnabled = TRUE
          /\ timers = << >>
          /\ registered = Registrations
          /\ environment = "studio"
          /\ lights = EnvironmentEffect(InitialLights, "studio")
          /\ nextId = 2
          /\ ops = 0
          /\ frames = 0
          /\ last = Ran("mount", "", NoId, TRUE)

selectType == \E t \in FactoryTypes : updateSelectedObject([ type |-> t ])
slideRadius == \E r \in FactoryRadii : updateSelectedObject([ radius |-> r ])
slideHeight == \E h \in FactoryHeights : updateSelectedObject([ height |-> h ])

FactoryNext == selectType \/ slideRadius \/ slideHeight

SpecFactory == FactoryInit /\ [][FactoryNext]_vars


(* ----------------------------------------------------------------------- *)
(* Properties                                                              *)
(* ----------------------------------------------------------------------- *)

\* the entry of a list with a given id
ObjectWithId(objs, id) == objs[CHOOSE i \in DOMAIN objs : objs[i].id = id]

\* the effects have run on the list as it is now
Reconciled == last.effects \/ ~ renderPending

(* C1: reconciliation completeness.  Once the Update Objects Effect has    *)
(* run on the current list, the ids of the live-mesh map are exactly the   *)
(* ids of the object list, and so are the meshes of the scene.             *)
C1_ReconciliationComplete ==
    Reconciled =>
        /\ DOMAIN meshes = Ids(objects)
        /\ sceneChildren = Ids(objects)

\* an object was added and an object was deleted, and the map follows the list
C1_Witness ==
    /\ last.op = "deleteObject"
    /\ last.effects
    /\ nextId > 2
    /\ DOMAIN meshes = Ids(objects)
    /\ last.id \notin DOMAIN meshes

C3_ReconciliationIdempotent ==
    [][ (last'.effects /\ objects' = objects /\ objectsRef = objects)
          => /\ geometries' = geometries
             /\ materials' = materials
             /\ sceneChildren' = sceneChildren
             /\ DOMAIN meshes' = DOMAIN meshes
             /\ \A id \in DOMAIN meshes :
                  /\ meshes'[id].geometry = meshes[id].geometry
                  /\ meshes'[id].material = meshes[id].material
                  /\ meshes'[id].userData = meshes[id].userData ]_vars

\* the effect ran again because only the gizmo visibility changed
C3_Witness ==
    /\ last.op = "setShowGizmo"
    /\ last.effects
    /\ objectsRef = objects
    /\ ~ showGizmo
    /\ Len(geometries) = Len(objects)

\* ids that had a mesh before the pass and are still in the list
Surviving == (DOMAIN meshes) \cap Ids(objects')

\* surviving ids whose cached triple differs from the object's triple
Outdated == { id \in Surviving : meshes[id].userData # Triple(ObjectWithId(objects', id)) }

(* C4: geometry-rebuild minimality.  A pass disposes and rebuilds the      *)
(* geometry of an existing node if and only if the object's (type, radius, *)
(* height) differs from the triple cached on the node; otherwise the       *)
(* geometry is untouched.  The pass allocates one geometry per rebuilt     *)
(* node and per new node and nothing else, never replaces a material, and  *)
(* leaves the cache equal to the object's triple.                          *)
C4_RebuildMinimal ==
    [][ last'.effects =>
          /\ \A id \in Surviving :
               LET o == ObjectWithId(objects', id)
                   old == meshes[id].geometry
                   new == meshes'[id].geometry
               IN  /\ (new # old) <=> (id \in Outdated)
                   /\ (id \in Outdated) =>
                        /\ new \notin DOMAIN geometries
                        /\ geometries'[old].disposed = geometries[old].disposed + 1
                        /\ geometries'[new] =
                             [ shape |-> createGeometry(o.type, o.radius, o.height),
                               disposed |-> 0 ]
                   /\ (id \notin Outdated) => geometries'[old] = geometries[old]
                   /\ meshes'[id].userData = Triple(o)
                   /\ meshes'[id].material = meshes[id].material
          /\ Len(geometries') = Len(geometries) + Cardinality(Outdated)
                                  + Cardinality(Ids(objects') \ DOMAIN meshes)
          /\ Len(materials') = Len(materials)
                                  + Cardinality(Ids(objects') \ DOMAIN meshes) ]_vars

\* the radius of the first object was edited and its geometry rebuilt once
C4_Witness ==
    /\ last.op = "updateSelectedObject"
    /\ last.effects
    /\ Len(objects) = 1
    /\ objects[1].radius # InitialObjects[1].radius
    /\ Len(geometries) = 2
    /\ geometries[1].disposed = 1
    /\ meshes[1].geometry = 2
    /\ meshes[1].userData = Triple(objects[1])

(* C5: live nodes never outlive their store entry.  A pass removes every   *)
(* node whose id has left the list from the map and from the scene and     *)
(* disposes its geometry and its material, each exactly once: the count of *)
(* dispose calls goes from zero to one, and no count ever exceeds one.     *)
C5_StaleNodesReleased ==
    /\ [][ last'.effects =>
             \A id \in (DOMAIN meshes) \ Ids(objects') :
               /\ id \notin DOMAIN meshes'
               /\ id \notin sceneChildren'
               /\ geometries[meshes[id].geometry].disposed = 0
               /\ geometries'[meshes[id].geometry].disposed = 1
               /\ materials[meshes[id].material].disposed = 0
               /\ materials'[meshes[id].material].disposed = 1 ]_vars
    /\ [](/\ \A h \in DOMAIN geometries : geometries[h].disposed <= 1
          /\ \A h \in DOMAIN materials : materials[h].disposed <= 1)

\* the preset replaced the list: the first object's node is gone and released
C5_Witness ==
    /\ last.op = "createSolarSystem"
    /\ 1 \notin DOMAIN meshes
    /\ 1 \notin sceneChildren
    /\ geometries[1].disposed = 1
    /\ materials[1].disposed = 1

(* C6: the returning-mode commit is deferred.  A frame pass leaves the     *)
(* object list and the list it iterates unchanged and only appends its     *)
(* commits to the timer queue; a commit is applied by a later timer        *)
(* callback, which takes the oldest callback that was already waiting.     *)
C6_CommitDeferred ==
    [][ /\ last'.op = "animate" =>
             /\ objects' = objects
             /\ objectsRef' = objectsRef
             /\ Len(timers') >= Len(timers)
             /\ SubSeq(timers', 1, Len(timers)) = timers
        /\ last'.op = "timeout" =>
             /\ timers # << >>
             /\ timers' = Tail(timers) ]_vars

\* a frame detected the arrival: the commit waits, the store still says 'returning'
C6_Witness ==
    /\ last.op = "animate"
    /\ timers # << >>
    /\ \E i \in DOMAIN objects :
         /\ objects[i].id = timers[1].id
         /\ objects[i].movementMode = "returning"
         /\ meshes[objects[i].id].position = objects[i].originalPosition


(* C7: returning-mode convergence.  With frames that keep running, timers  *)
(* that fire and renders that are made, and no input in between, every     *)
(* object that returns at movementSpeed 1 is eventually stored with        *)
(* movementMode 'none' and with its position exactly at its home.          *)
C7_ReturningConverges ==
    (\A i \in DOMAIN objects :
        objects[i].movementMode = "returning" => objects[i].movementSpeed = 10)
    => <>(\A i \in DOMAIN objects :
            /\ objects[i].movementMode = "none"
            /\ objects[i].position = objects[i].originalPosition)

\* the object that set out at speed 1 has been committed at its home and rendered
C7_Witness ==
    /\ last.op = "render"
    /\ Len(objects) = 1
    /\ objects[1].movementSpeed = 10
    /\ objects[1].movementMode = "none"
    /\ objects[1].position = objects[1].originalPosition
    /\ meshes[1].position = objects[1].originalPosition
    /\ timers = << >>

\* the distance between two points is below 0.01
WithinCentiUnit(a, b) ==
    /\ \A k \in 1 .. 3 : Abs(a[k] - b[k]) < Scale \div 100
    /\ (a[1] - b[1]) * (a[1] - b[1]) + (a[2] - b[2]) * (a[2] - b[2])
         + (a[3] - b[3]) * (a[3] - b[3]) < (Scale \div 100) * (Scale \div 100)

\* q is nearer to h than p on one axis and on no axis farther: its Euclidean
\* distance to h is strictly smaller
StrictlyNearer(h, q, p) ==
    /\ \A k \in 1 .. 3 : Abs(h[k] - q[k]) <= Abs(h[k] - p[k])
    /\ \E k \in 1 .. 3 : Abs(h[k] - q[k]) < Abs(h[k] - p[k])

\* the callbacks a step appended to the timer queue
Appended == SubSeq(timers', Len(timers) + 1, Len(timers'))

(* C8: the returning-mode step.  A frame moves every axis of the node of a *)
(* returning object by (home - node) * 0.05 * speed; while the node is not *)
(* at home its distance to home strictly decreases; when the stepped node  *)
(* is nearer than 0.01 to home it is put exactly at home in that frame and *)
(* one commit for it is queued, and otherwise none is queued.              *)
C8_ReturningStep ==
    [][ last'.op = "animate" =>
          \A i \in DOMAIN objectsRef :
            (objectsRef[i].movementMode = "returning"
               /\ objectsRef[i].id \in DOMAIN meshes) =>
              LET id == objectsRef[i].id
                  h == objectsRef[i].originalPosition
                  v == objectsRef[i].movementSpeed
                  p == meshes[id].position
                  q == [ k \in 1 .. 3 |-> p[k] + RoundDiv((h[k] - p[k]) * 5 * v, 1000) ]
                  queued == { k \in DOMAIN Appended : Appended[k].id = id }
              IN  /\ (p # h) => StrictlyNearer(h, meshes'[id].position, p)
                  /\ WithinCentiUnit(h, q) =>
                       /\ meshes'[id].position = h
                       /\ Cardinality(queued) = 1
                       /\ \A k \in queued : Appended[k].home = h
                  /\ ~ WithinCentiUnit(h, q) =>
                       /\ meshes'[id].position = q
                       /\ queued = { } ]_vars

\* a frame moved a returning node part of the way: it is neither where the
\* store has it nor at home, and nothing is queued
C8_Witness ==
    /\ last.op = "animate"
    /\ timers = << >>
    /\ \E i \in DOMAIN objectsRef :
         /\ objectsRef[i].movementMode = "returning"
         /\ meshes[objectsRef[i].id].position # objectsRef[i].position
         /\ meshes[objectsRef[i].id].position # objectsRef[i].originalPosition

(* C9: one commit per arrival, applied before the next frame.  When a      *)
(* frame begins, no object that the frame loop sees in 'returning' mode    *)
(* has a commit waiting in the timer queue or is already committed in the  *)
(* store.                                                                  *)
C9_CommitBeforeNextFrame ==
    [][ last'.op = "animate" =>
          \A i \in DOMAIN objectsRef :
            objectsRef[i].movementMode = "returning" =>
              /\ \A k \in DOMAIN timers : timers[k].id # objectsRef[i].id
              /\ \A j \in DOMAIN objects :
                   objects[j].id = objectsRef[i].id
                     => objects[j].movementMode = "returning" ]_vars

(* C10: home at creation.  Every object that addObject or the solar-system *)
(* preset puts into the list has originalPosition equal to its position.   *)
C10_HomeAtCreation ==
    [][ last'.op \in { "addObject", "createSolarSystem" } =>
          \A i \in DOMAIN objects' :
            objects'[i].id >= nextId =>
              objects'[i].originalPosition = objects'[i].position ]_vars

(* C11: ids are unique and immutable.  No two objects of the list have the *)
(* same id, and an operation that keeps the objects of the list (every one *)
(* but a delete and the preset) leaves the id of each of them as it was.   *)
C11_IdsUniqueImmutable ==
    /\ [](\A i, j \in DOMAIN objects : i # j => objects[i].id # objects[j].id)
    /\ [][ (Len(objects') >= Len(objects) /\ last'.op # "createSolarSystem")
             => \A i \in DOMAIN objects : objects'[i].id = objects[i].id ]_vars

C13_GizmoOrbitExclusion == controlsEnabled <=> ~ dragging

\* a drag was started and has ended: the orbit controls are enabled again
C13_Witness ==
    /\ last.op = "dragging-changed"
    /\ ops = 2
    /\ ~ dragging
    /\ controlsEnabled

(* C14: gizmo write-back timing.  While a drag is in progress a move of    *)
(* the gizmo leaves the object list as it is; the event that ends the drag *)
(* sets the selected object's position, rotation and scale to those of the *)
(* node, its originalPosition to the new position, and nothing else.       *)
C14_WriteBackOnDragEnd ==
    [][ /\ (last'.op = "objectChange" /\ dragging /\ dragging')
             => objects' = objects
        /\ (last'.op = "dragging-changed" /\ dragging /\ ~ dragging'
               /\ transformObject # NoId /\ selectedIdRef # NoId)
             => objects' = ObjectChange(objects, selectedIdRef,
                                        meshes[transformObject]) ]_vars

(* C15: gizmo binding.  After a pass of the Update Objects Effect the      *)
(* gizmo is attached if and only if something is selected, the gizmo is    *)
(* shown and the selected id has a live node; it is then attached to the   *)
(* node of the selected id, in the current transform mode; otherwise it is *)
(* detached.                                                               *)
C15_GizmoBinding ==
    last.effects =>
        LET bound == /\ selectedId # NoId
                     /\ showGizmo
                     /\ selectedId \in DOMAIN meshes
        IN  /\ (transformObject # NoId) <=> bound
            /\ bound => /\ transformObject = selectedId
                        /\ gizmoMode = transformMode
            /\ ~ bound => transformObject = NoId

\* an object was added and the mode switched to rotate: the gizmo is on the
\* new object's node in rotate mode
C15_Witness ==
    /\ last.op = "setTransformMode"
    /\ last.effects
    /\ selectedId # NoId
    /\ selectedId # InitialSelectedId
    /\ transformObject = selectedId
    /\ gizmoMode = "rotate"

(* C16: teardown.  Once the component has unmounted, the frame loop and   *)
(* the resize and keydown listeners are unregistered, the geometry and the *)
(* material of every node of the live-mesh map are disposed, and no        *)
(* geometry or material that was allocated remains undisposed.             *)
C16_TeardownReleases ==
    ~ Running =>
        /\ registered \cap { "frame", "resize", "keydown" } = { }
        /\ \A id \in DOMAIN meshes :
             /\ geometries[meshes[id].geometry].disposed >= 1
             /\ materials[meshes[id].material].disposed >= 1
        /\ \A h \in DOMAIN geometries : geometries[h].disposed >= 1
        /\ \A h \in DOMAIN materials : materials[h].disposed >= 1

(* C17: update is a no-op when its target is missing.  An update issued   *)
(* while nothing is selected, or whose target id is not in the list,       *)
(* leaves the list as it is; an update whose target exists keeps the ids   *)
(* and the order of the list, leaves every other object as it is and       *)
(* changes no field of the target but the one supplied.                    *)
C17_UpdateTargetOnly ==
    [][ last'.op = "updateSelectedObject" =>
          /\ Len(objects') = Len(objects)
          /\ (selectedIdRef = NoId \/ selectedIdRef \notin Ids(objects))
               => objects' = objects
          /\ \A i \in DOMAIN objects :
               /\ objects'[i].id = objects[i].id
               /\ objects[i].id # selectedIdRef => objects'[i] = objects[i]
               /\ \A f \in DOMAIN objects[i] :
                    f # last'.key => objects'[i][f] = objects[i][f] ]_vars

\* an object was added and its type edited: the first object is as it was
\* and the second differs from what addObject built in its type alone
C17_Witness ==
    /\ last.op = "updateSelectedObject"
    /\ last.key = "type"
    /\ Len(objects) = 2
    /\ objects[1] = InitialObjects[1]
    /\ objects[2].id = last.id
    /\ objects[2].type = "cube"
    /\ objects[2].radius = 20
    /\ objects[2].movementMode = "none"

(* C18: keyboard delete.  Delete or Backspace, pressed with the focus      *)
(* outside an input or select element while an object is selected and the  *)
(* list holds more than one object, removes exactly the selected object    *)
(* from the list.                                                          *)
C18_KeyboardDelete ==
    [][ (/\ last'.op = "deleteObject"
         /\ last'.key \in { "delete", "backspace" }
         /\ selectedIdRef # NoId
         /\ Len(objects) > 1)
          => objects' = FilterOut(objects, selectedIdRef) ]_vars

\* the table of primitives: r and h are the radius and the height in the
\* unit of the geometry lengths
Sides(type) ==
    CASE type = "pyramid" -> 4
      [] type = "prism" -> 3
      [] type = "pentagonalPrism" -> 5
      [] type = "hexagonalPrism" -> 6
      [] type = "octagonalPrism" -> 8
      [] OTHER -> 64

TablePrimitive(type, r, h) ==
    IF type \in { "cylinder", "prism", "pentagonalPrism", "hexagonalPrism",
                  "octagonalPrism" }
    THEN [ kind |-> "CylinderGeometry", args |-> << r, r, h, Sides(type) >> ]
    ELSE IF type \in { "cone", "pyramid" }
    THEN [ kind |-> "ConeGeometry", args |-> << r, h, Sides(type) >> ]
    ELSE IF type = "cube"
    THEN [ kind |-> "BoxGeometry", args |-> << 2 * r, 2 * r, 2 * r >> ]
    ELSE IF type = "torus"
    THEN [ kind |-> "TorusGeometry", args |-> << r, r \div 3, 64, 64 >> ]
    ELSE IF type = "tetrahedron"
    THEN [ kind |-> "TetrahedronGeometry", args |-> << r >> ]
    ELSE IF type = "dodecahedron"
    THEN [ kind |-> "DodecahedronGeometry", args |-> << r >> ]
    ELSE IF type = "icosahedron"
    THEN [ kind |-> "IcosahedronGeometry", args |-> << r >> ]
    ELSE [ kind |-> "SphereGeometry", args |-> << r, 64, 64 >> ]

(* C19: the geometry factory is total and matches the table.  The geometry *)
(* of every node is the table's primitive, with the table's parameters,    *)
(* for the (type, radius, height) it was built from: each of the thirteen  *)
(* shape kinds has its row, and any other type value gives the sphere.     *)
C19_FactoryMatchesTable ==
    \A id \in DOMAIN meshes :
        LET u == meshes[id].userData
        IN  geometries[meshes[id].geometry].shape
              = TablePrimitive(u.type, 3 * u.radius, 3 * u.height)

\* the radius of an object of an unknown type was edited: the rebuilt
\* geometry is the sphere of the new radius
C19_Witness ==
    /\ last.op = "updateSelectedObject"
    /\ last.key = "radius"
    /\ meshes[1].userData.type \notin ShapeTypes
    /\ meshes[1].geometry > 1
    /\ geometries[meshes[1].geometry].shape
         = [ kind |-> "SphereGeometry",
             args |-> << 3 * objects[1].radius, 64, 64 >> ]

(* C20: environment presets are a pure lookup.  The background, the       *)
(* ambient intensity, the intensity and colour of the key light and the    *)
(* intensity and colour of the accent point light are determined by the    *)
(* current preset alone: they are what the preset gives when it is the     *)
(* first one chosen, whatever presets were chosen before it.               *)
C20_EnvironmentPureLookup ==
    lights = EnvironmentEffect(InitialLights, environment)

(* C21: after a pass of the Update Objects Effect the node of every       *)
(* object of the list, created in that pass or older, has the object's     *)
(* stored position, rotation and scale.                                    *)
C21_TransformApplied ==
    last.effects =>
        \A i \in DOMAIN objects :
            objects[i].id \in DOMAIN meshes =>
                /\ meshes[objects[i].id].position = objects[i].position
                /\ meshes[objects[i].id].rotation = objects[i].rotation
                /\ meshes[objects[i].id].scale = objects[i].scale

(* C22: the frame simulation writes only to live nodes.  A frame pass     *)
(* leaves every object of the list as it is and adds or removes no object  *)
(* and no node, geometry or material; the one store write the simulation   *)
(* causes is the deferred commit of a completed return, and that commit    *)
(* leaves the length of the list and every originalPosition as they were.  *)
C22_FrameWritesNodesOnly ==
    [][ /\ last'.op = "animate" =>
             /\ objects' = objects
             /\ DOMAIN meshes' = DOMAIN meshes
             /\ sceneChildren' = sceneChildren
             /\ geometries' = geometries
             /\ materials' = materials
        /\ last'.op = "timeout" =>
             /\ Len(objects') = Len(objects)
             /\ \A i \in DOMAIN objects :
                  /\ objects'[i].id = objects[i].id
                  /\ objects'[i].originalPosition = objects[i].originalPosition ]_vars

\* the commit of a return to a home away from the origin has run: the
\* object is stored at that home, which is where it was
C22_Witness ==
    /\ last.op = "timeout"
    /\ \E i \in DOMAIN objects :
         /\ objects[i].id = last.id
         /\ objects[i].originalPosition # Vec(0, 0, 0)
         /\ objects[i].position = objects[i].originalPosition
         /\ objects[i].movementMode = "none"

\* the objects the frame loop sees that have a node
Animated == { i \in DOMAIN objectsRef : objectsRef[i].id \in DOMAIN meshes }

(* C23: orbit is memoryless.  A frame at clock reading t puts the node of  *)
(* an object in mode 'orbit' at x = home.x + cos(t * speed * 0.5) * R and   *)
(* z = home.z + sin(t * speed * 0.5) * R, where R is the range, or 5 when   *)
(* the range is 0, whatever the node's position was before, and leaves the *)
(* node's y as it was.                                                     *)
C23_OrbitMemoryless ==
    [][ last'.op = "animate" =>
          \E t \in Times :
            \A i \in Animated :
              LET obj == objectsRef[i]
                  home == obj.originalPosition
                  R == IF obj.movementRange = 0 THEN 50 ELSE obj.movementRange
                  a == t * obj.movementSpeed
              IN  obj.movementMode = "orbit" =>
                    /\ meshes'[obj.id].position[1] = home[1] + Swing(Cos32(a), R)
                    /\ meshes'[obj.id].position[2] = meshes[obj.id].position[2]
                    /\ meshes'[obj.id].position[3] = home[3] + Swing(Sin32(a), R) ]_vars

\* a frame at clock reading 0 has put an orbiting object with range 0 that
\* was elsewhere five units beside its home, at the height it had
C23_Witness ==
    /\ last.op = "animate"
    /\ objectsRef[1].movementMode = "orbit"
    /\ objectsRef[1].movementRange = 0
    /\ objectsRef[1].originalPosition = Vec(300, 0 - 200, 7 * Scale)
    /\ objectsRef[1].position = Vec(3 * Scale + 300, 300, 8 * Scale)
    /\ meshes[1].position = Vec(5 * Scale + 300, 300, 7 * Scale)

(* C24: the write set of each mode.  In a frame at clock reading t mode    *)
(* 'none' leaves the node's position as it was, 'left-right' writes only x, *)
(* to home.x + sin(t * speed * 2) * range (home.x itself when the range is  *)
(* 0), and 'up-down' writes only y, to home.y + sin(t * speed * 2) * range; *)
(* the other components keep their values.                                 *)
C24_WriteSets ==
    [][ last'.op = "animate" =>
          \E t \in Times :
            \A i \in Animated :
              LET obj == objectsRef[i]
                  home == obj.originalPosition
                  w == Swing(Sin32(t * obj.movementSpeed * 4), obj.movementRange)
                  old == meshes[obj.id].position
                  new == meshes'[obj.id].position
              IN  /\ obj.movementMode = "none" => new = old
                  /\ obj.movementMode = "left-right" =>
                        /\ new = Vec(home[1] + w, old[2], old[3])
                        /\ obj.movementRange = 0 => new[1] = home[1]
                  /\ obj.movementMode = "up-down" =>
                        /\ new = Vec(old[1], home[2] + w, old[3])
                        /\ obj.movementRange = 0 => new[2] = home[2] ]_vars

\* a frame has swung an object in mode 'left-right' and range 3 away from
\* its home along x; y and z are where the drag left them
C24_Witness ==
    /\ last.op = "animate"
    /\ objectsRef[1].movementMode = "left-right"
    /\ objectsRef[1].movementRange = 30
    /\ meshes[1].position[1] # objectsRef[1].originalPosition[1]
    /\ meshes[1].position[1] # objectsRef[1].position[1]
    /\ meshes[1].position[2] = objectsRef[1].position[2]
    /\ meshes[1].position[3] = objectsRef[1].position[3]
    /\ meshes[1].position[3] # objectsRef[1].originalPosition[3]

(* C25: the spin is orthogonal to the movement.  In every frame the        *)
(* rotation about y of every node grows by 0.01 exactly when the object's  *)
(* isAnimated is set, in every movement mode; the other two rotations, the *)
(* stored home and, in mode 'none', the node's position stay as they were. *)
C25_SpinOrthogonal ==
    [][ last'.op = "animate" =>
          \A i \in Animated :
            LET obj == objectsRef[i]
                old == meshes[obj.id]
                new == meshes'[obj.id]
            IN  /\ new.rotation[2] - old.rotation[2] =
                      (IF obj.isAnimated THEN Scale \div 100 ELSE 0)
                /\ new.rotation[1] = old.rotation[1]
                /\ new.rotation[3] = old.rotation[3]
                /\ objectsRef'[i].originalPosition = obj.originalPosition
                /\ obj.movementMode = "none" => new.position = old.position ]_vars

\* two frames have spun a resting object twice by 0.01 where it stands
C25_Witness ==
    /\ last.op = "animate"
    /\ frames = 2
    /\ objectsRef[1].isAnimated
    /\ objectsRef[1].movementMode = "none"
    /\ meshes[1].rotation = Vec(0, 2 * (Scale \div 100), 0)
    /\ meshes[1].position = objectsRef[1].position
    /\ meshes[1].position # objectsRef[1].originalPosition

GeometryHolders(g) == { id \in DOMAIN meshes : meshes[id].geometry = g }
MaterialHolders(m) == { id \in DOMAIN meshes : meshes[id].material = m }

(* C27: conservation of graphics resources.  While the component is        *)
(* mounted every geometry and every material that a pass allocated is held *)
(* by exactly one node of the map and not disposed, or is held by none and *)
(* was disposed exactly once; and a node keeps, as long as it is in the    *)
(* map, the material it was created with.                                  *)
C27_ResourceConservation ==
    /\ [](Running =>
            /\ \A g \in DOMAIN geometries :
                 \/ geometries[g].disposed = 0 /\ Cardinality(GeometryHolders(g)) = 1
                 \/ geometries[g].disposed = 1 /\ GeometryHolders(g) = { }
            /\ \A m \in DOMAIN materials :
                 \/ materials[m].disposed = 0 /\ Cardinality(MaterialHolders(m)) = 1
                 \/ materials[m].disposed = 1 /\ MaterialHolders(m) = { })
    /\ [][ \A id \in (DOMAIN meshes) \cap (DOMAIN meshes') :
             meshes'[id].material = meshes[id].material ]_vars

\* an object was added and its type changed: its first geometry is disposed
\* and held by no node, its node holds the new one and its first material
C27_Witness ==
    /\ Running
    /\ last.op = "updateSelectedObject"
    /\ last.key = "type"
    /\ DOMAIN meshes = { 1, 2 }
    /\ Len(geometries) = 3
    /\ Len(materials) = 2
    /\ geometries[2].disposed = 1
    /\ GeometryHolders(2) = { }
    /\ meshes[2].geometry = 3
    /\ meshes[2].material = 2
    /\ materials[2].disposed = 0

(* C28: the deferred commit under interleaving.  The callback is applied  *)
(* by id to the list as it is when the callback runs: an object with the   *)
(* captured id gets the home captured at enqueue time as its position and  *)
(* 'none' as its movementMode, whatever its mode and home are by then, and *)
(* keeps its other fields; every other object is left as it is; when no    *)
(* object has that id any more the list is unchanged.                      *)
C28_CommitById ==
    [][ (last'.op = "timeout" /\ Running) =>
          LET c == Head(timers)
          IN  /\ Len(objects') = Len(objects)
              /\ \A i \in DOMAIN objects :
                   objects'[i] =
                     IF objects[i].id = c.id
                     THEN [ objects[i] EXCEPT !.position = c.home,
                                              !.movementMode = "none" ]
                     ELSE objects[i]
              /\ c.id \notin Ids(objects) => objects' = objects ]_vars

\* the preset replaced the list while the callback of object 1 was waiting:
\* the callback has run and the list is the preset's
C28_Witness ==
    /\ Running
    /\ last.op = "timeout"
    /\ last.id = 1
    /\ objects = SolarSystem(2)
    /\ timers = << >>

(* C29: reconciliation resets simulated displacement.  Every pass of the  *)
(* Update Objects Effect sets the position and the rotation of every node  *)
(* that existed before the pass and stays in the list to the stored        *)
(* position and rotation, also for the objects the change did not touch:   *)
(* what the frames accumulated on a node (the z of 'straight', the         *)
(* progress of 'returning', the spin) is gone after the pass.              *)
C29_PassResetsDisplacement ==
    [][ last'.effects =>
          \A i \in DOMAIN objects' :
            objects'[i].id \in DOMAIN meshes =>
              /\ meshes'[objects'[i].id].position = objects'[i].position
              /\ meshes'[objects'[i].id].rotation = objects'[i].rotation ]_vars

\* the first object spins, a frame has run, and the pass that followed the
\* addition of a second object has put its node back at the stored rotation
C29_Witness ==
    /\ last.op = "addObject"
    /\ last.id = 2
    /\ frames >= 1
    /\ objects[1].isAnimated
    /\ meshes[1].rotation = Vec(0, 0, 0)
    /\ meshes[1].position = objects[1].position

(* C30: the solar-system preset replaces the whole store.  After it the  *)
(* list holds exactly five objects, the sun in mode 'none' followed by     *)
(* four planets in mode 'orbit'; no object that was in the list remains;   *)
(* the sun is selected; and after the pass of the render that follows, the *)
(* map holds exactly the five ids, and every node that was in the map is   *)
(* out of the map and of the scene with its geometry and material          *)
(* disposed.                                                               *)
C30_PresetReplacesStore ==
    [][ last'.op = "createSolarSystem" =>
          /\ Len(objects') = 5
          /\ objects'[1].name = "The Sun"
          /\ objects'[1].movementMode = "none"
          /\ \A i \in 2 .. 5 : objects'[i].movementMode = "orbit"
          /\ Cardinality(Ids(objects')) = 5
          /\ Ids(objects') \cap Ids(objects) = { }
          /\ selectedId' = objects'[1].id
          /\ DOMAIN meshes' = Ids(objects')
          /\ \A id \in DOMAIN meshes :
               /\ id \notin DOMAIN meshes'
               /\ id \notin sceneChildren'
               /\ geometries'[meshes[id].geometry].disposed = 1
               /\ materials'[meshes[id].material].disposed = 1 ]_vars

\* the preset has run on a list of two objects: the five objects are the
\* list and the map, and the resources of the two old nodes are disposed
C30_Witness ==
    /\ last.op = "createSolarSystem"
    /\ objects = SolarSystem(3)
    /\ selectedId = 3
    /\ DOMAIN meshes = 3 .. 7
    /\ sceneChildren = 3 .. 7
    /\ geometries[1].disposed = 1
    /\ geometries[2].disposed = 1
    /\ materials[1].disposed = 1
    /\ materials[2].disposed = 1

====
